---- MODULE Spec2Model ----
(***************************************************************************)
(* Liquidation engine: the position registry, the Pyth price gate, the     *)
(* per-position evaluation and the periodic driver, for both engine        *)
(* variants of the repository:                                             *)
(*   "lib"  src/engine/src/lib.rs          (library crate)                 *)
(*   "bin"  src/engine/src/liquidation.rs  (binary crate, used by main.rs) *)
(*                                                                         *)
(* Numbers.  The source computes in f64; the model computes the same       *)
(* expressions exactly, as fractions compared by cross-multiplication,     *)
(* with the IEEE special cases (x/0 = inf, 0/0 = NaN, every comparison     *)
(* with NaN false) written out.  Sizes and margins are counted in units of *)
(* 250000 (base, resp. quote currency): margin_ratio is unchanged by that  *)
(* common factor and size / 1_000_000 becomes size / SIZE_CAP.             *)
(***************************************************************************)
EXTENDS Integers, Sequences, FiniteSets, TLC

\* ------------------------------------------------------------------ bounds
\* Wall clock (chrono::Utc::now().timestamp()) runs over 0..MaxTime.
MaxTime == 2

\* ----------------------------------------------------------- configuration
\* lib.rs LiquidationConfig::liquidation_cooldown_secs (i64), as configured.
lib_liquidation_cooldown_secs == 2
\* types.rs LiquidationConfig::liquidation_cooldown_secs (u64), as configured.
liquidation_cooldown_secs == 2
\* types.rs LiquidationConfig::min_liquidation_interval_secs, as configured.
min_liquidation_interval_secs == 2
\* LiquidationConfig::max_concurrent_liquidations (lib.rs and types.rs), as
\* configured.
max_concurrent_liquidations == 1
\* types.rs LiquidationConfig::max_retries, Default.
max_retries == 3
\* types.rs LiquidationConfig::dry_run, Default (the lib.rs config has none).
dry_run == TRUE
\* types.rs LiquidationConfig::enable_partial_liquidations, Default.
enable_partial_liquidations == TRUE
\* types.rs LiquidationConfig::max_liquidation_percent (u8), Default.
max_liquidation_percent == 50
\* types.rs LiquidationConfig::min_position_size and max_position_size,
\* Default: 0.001 and 1000.0, as fractions of the model's size unit of 250000.
min_position_size == <<1, 250000000>>
max_position_size == <<1, 250>>
\* types.rs LiquidationConfig::whitelisted_symbols and blacklisted_symbols,
\* Default.
whitelisted_symbols == {"BTC/USD", "ETH/USD"}
blacklisted_symbols == {}
\* types.rs LiquidationConfig::maintenance_margin = 0.05 = 200 / MM_DEN.
maintenance_margin_num == 200
\* oracle.rs OracleConfig::max_price_age_secs, as configured.
max_price_age_secs == 1
\* oracle.rs OracleConfig::min_confidence_interval = 0.001 = 1 / CONF_DEN.
min_confidence_interval_num == 1
\* oracle.rs OracleConfig::max_confidence_interval = 0.01 = 10 / CONF_DEN.
max_confidence_interval_num == 10
\* Denominator of the two confidence thresholds.
CONF_DEN == 1000
\* position.rs BASE_MAINTENANCE_MARGIN = 0.005 = 20 / MM_DEN.
BASE_MAINTENANCE_MARGIN_NUM == 20
\* Denominator of the maintenance margins.
MM_DEN == 4000
\* position.rs: size / 1_000_000.0 capped at 1.0; 1_000_000 is SIZE_CAP units.
SIZE_CAP == 4

\* Option<T>: None is the empty sequence, Some(x) the sequence of x alone.
None == <<>>
Some(x) == <<x>>

\* ------------------------------------------------------- position.rs (math)
Min(a, b) == IF a < b THEN a ELSE b

\* n/d < mn/md for d # 0, md > 0 (f64 division by a negative d flips the sign).
FracLess(n, d, mn, md) == IF d > 0 THEN n * md < mn * d ELSE n * md > mn * d

\* Position::value
value(p, current_price) == p.size * current_price

unrealized_pnl_IgnoreSide(p, current_price) ==
    LET price_diff == IF p.is_long THEN current_price - p.entry_price
                                   ELSE current_price - p.entry_price
    IN  p.size * price_diff

\* Position::unrealized_pnl
unrealized_pnl(p, current_price) ==
    LET price_diff == IF p.is_long THEN current_price - p.entry_price
                                   ELSE p.entry_price - current_price
    IN  p.size * price_diff

\* Position::margin_ratio, as the fraction <<numerator, denominator>>.
margin_ratio(p, current_price) ==
    LET position_value == value(p, current_price)
    IN  IF position_value = 0 THEN <<0, 1>>
        ELSE <<p.margin + unrealized_pnl(p, current_price), position_value>>

\* Position::calculate_maintenance_margin, numerator over MM_DEN:
\* 0.005 + 0.001 * min(size / 1_000_000, 1.0).
calculate_maintenance_margin(p) == BASE_MAINTENANCE_MARGIN_NUM + Min(p.size, SIZE_CAP)

\* Position::is_liquidatable
is_liquidatable(p, current_price) ==
    LET r == margin_ratio(p, current_price)
    IN  FracLess(r[1], r[2], calculate_maintenance_margin(p), MM_DEN)

\* Position::is_undercollateralized (maintenance margin mm_num / MM_DEN)
is_undercollateralized(p, current_price, mm_num) ==
    LET r == margin_ratio(p, current_price)
    IN  FracLess(r[1], r[2], mm_num, MM_DEN)

\* f64::max
Max(a, b) == IF a > b THEN a ELSE b

\* Position::leverage, as the fraction <<numerator, denominator>>; a zero
\* denominator under a positive numerator is the f64 +inf.
leverage(p, current_price) ==
    LET position_value == value(p, current_price)
    IN  IF position_value = 0 THEN <<0, 1>>
        ELSE <<position_value, p.margin + Max(unrealized_pnl(p, current_price), 0)>>

\* A fraction in lowest terms.
RECURSIVE Gcd(_, _)
Gcd(a, b) == IF b = 0 THEN a ELSE Gcd(b, a % b)
Reduce(f) ==
    LET g == Gcd(IF f[1] < 0 THEN -f[1] ELSE f[1], f[2])
    IN  IF g = 0 THEN f ELSE <<f[1] \div g, f[2] \div g>>

liquidation_price_IgnoreSide(p) ==
    IF p.size = 0 THEN <<0, 1>>
    ELSE LET mm == calculate_maintenance_margin(p)
             lev == leverage(p, p.entry_price)
         IN  Reduce(<<p.entry_price * (lev[1] * MM_DEN - lev[2] * MM_DEN + mm * lev[1]),
                      lev[1] * MM_DEN>>)

\* Position::liquidation_price, as a fraction, for entry_price > 0 (the
\* leverage at the entry price is then not zero):
\*   long   entry_price * (1 - 1 / leverage + maintenance_margin)
\*   short  entry_price * (1 + 1 / leverage - maintenance_margin)
liquidation_price(p) ==
    IF p.size = 0 THEN <<0, 1>>
    ELSE LET mm == calculate_maintenance_margin(p)
             lev == leverage(p, p.entry_price)
         IN  IF p.is_long
             THEN Reduce(<<p.entry_price * (lev[1] * MM_DEN - lev[2] * MM_DEN + mm * lev[1]),
                           lev[1] * MM_DEN>>)
             ELSE Reduce(<<p.entry_price * (lev[1] * MM_DEN + lev[2] * MM_DEN - mm * lev[1]),
                           lev[1] * MM_DEN>>)

\* The position with its quote-currency amounts (entry_price, margin) counted
\* in k-ths: a method called on it with the price f[1] returns what the
\* method returns on p at the price f[1] / k, the ratios being unchanged by
\* the common factor.
Rescaled(p, k) == [p EXCEPT !.entry_price = @ * k, !.margin = @ * k]

\* --------------------------------------------------------------- oracle.rs
\* 10f64.powi(expo) for the exponents of the model.
Pow10(expo) == IF expo = 0 THEN 1 ELSE 10

\* current_time.saturating_sub(t as u64): a negative i64 cast to u64 is at
\* least 2^63, above every clock value, so the difference saturates to 0.
SaturatingSubAsU64(current_time, t) ==
    IF t < 0 THEN 0
    ELSE IF current_time >= t THEN current_time - t ELSE 0

\* confidence / price < num / CONF_DEN in f64: price = 0 gives +inf
\* (confidence > 0) or NaN (confidence = 0), and neither is below anything.
RatioBelow(confidence, price, num) ==
    IF price = 0 THEN FALSE ELSE FracLess(confidence, price, num, CONF_DEN)

\* confidence / price > num / CONF_DEN in f64: +inf is above, NaN is not.
RatioAbove(confidence, price, num) ==
    IF price = 0 THEN confidence > 0
    ELSE IF price > 0 THEN confidence * CONF_DEN > num * price
    ELSE confidence * CONF_DEN < num * price

Ok(price) == [price |-> price, ok |-> TRUE, err |-> "none"]
Err(e) == [price |-> 0, ok |-> FALSE, err |-> e]

\* What the oracle source can hand back for one query: the price account is
\* unknown, the RPC fetch fails, the account does not parse, or a price
\* account with agg.price (i64), agg.conf (u64), expo and timestamp (i64).
RawPrices == {-1000, 0, 100, 1000}
RawConfs == {0, 1, 10, 11}
Expos == {0, 1}
Timestamps == -1 .. (MaxTime + 1)
Readings ==
    [expo : {0}, price : {0}, fetch : {"no_account", "rpc_error", "parse_error"},
     conf : {0}, timestamp : {0}]
    \cup
    [expo : Expos, price : RawPrices, fetch : {"ok"}, conf : RawConfs,
     timestamp : Timestamps]

\* The staleness test of PythOracle::get_price.
IsStale(r, current_time) ==
    SaturatingSubAsU64(current_time, r.timestamp) > max_price_age_secs

\* The confidence test of PythOracle::get_price on the scaled values.
ConfidenceGate(price, confidence) ==
    IF RatioBelow(confidence, price, min_confidence_interval_num)
    THEN Err("LowConfidencePrice")
    ELSE IF RatioAbove(confidence, price, max_confidence_interval_num)
    THEN Err("HighConfidenceInterval")
    ELSE Ok(price)

\* PythOracle::get_price on reading r at clock current_time.
get_price(r, current_time) ==
    IF r.fetch = "no_account" THEN Err("OracleError")
    ELSE IF r.fetch = "rpc_error" THEN Err("RpcError")
    ELSE IF r.fetch = "parse_error" THEN Err("OracleError")
    ELSE IF IsStale(r, current_time) THEN Err("StalePrice")
    ELSE ConfidenceGate(r.price * Pow10(r.expo), r.conf * Pow10(r.expo))

\* ------------------------------------------------------------------ state
Addresses == {"a1", "a2"}
Symbols == {"BTC/USD"}
Tasks == {"driver", "manual"}
Variants == {"lib", "bin"}

\* The economics add_position is called with (Position::new and struct
\* literals): a 10x long and a closed (size 0) position.
OpenEconomics ==
    { [size |-> 1, is_long |-> TRUE, entry_price |-> 1000, margin |-> 100] }
Economics ==
    OpenEconomics \cup
    { [size |-> 0, is_long |-> TRUE, entry_price |-> 1000, margin |-> 0] }

\* The last_liquidated values add_position is called with: None
\* (Position::new) or an earlier liquidation at time 0.
GivenLastLiquidated == {None, Some(0)}

\* Position (owner, never read by the engine, is left out).
Position(a, s, e, last) ==
    [size |-> e.size, is_long |-> e.is_long, entry_price |-> e.entry_price,
     margin |-> e.margin, address |-> a, symbol |-> s, last_liquidated |-> last]

\* A task that is not inside check_positions.  Of a task inside it:
\*   pc        where it is: "snapshot" (holding the read guard), "loop"
\*             (between two check_position calls), "oracle" (get_price in
\*             progress), "liquidating" (liquidate_position in progress),
\*             "record_wait" (waiting for the write guard), "record" (holding it)
\*   snapshot  the positions of positions_snapshot still to be visited
\*   cur       the argument of the running check_position
\*   oracle    what get_price returned to it
\*   ledger    history: what liquidate_position returned to it ("ok", "err")
\*   taken     history: the addresses of the snapshot as taken
\*   results   history: the outcome of every check_position of this pass
IdleTask ==
    [pc |-> "idle", snapshot |-> <<>>, cur |-> None, oracle |-> None,
     ledger |-> "none", taken |-> {}, results |-> <<>>]

VARIABLES
    variant,      \* which engine is running: "lib" or "bin"
    now,          \* chrono::Utc::now().timestamp()
    positions,    \* LiquidationEngine::positions, the HashMap address -> Position
    lock,         \* the RwLock around positions: who holds a read or write guard
    task,         \* the driver (start) and a manual check_positions caller
    lastSuccess,  \* history: when liquidate_position last returned Ok, per address
    account,      \* price gate alone: the price account the query reads
    reply,        \* price gate alone: the clock and the result of the query
    subject,      \* position math alone: the position the methods are called on
    quote,        \* position math alone: what the methods returned at one price
    chain,        \* on-ledger program alone: the position account and token balances
    receipt,      \* on-ledger program alone: the last instruction and its result
    batch         \* batch price fetch alone: one get_prices call and its progress

vars == <<variant, now, positions, lock, task, lastSuccess, account, reply, subject, quote, chain, receipt, batch>>

\* LiquidationEngine::new: an empty registry, nothing running.
Init ==
    /\ variant \in Variants
    /\ now = 0
    /\ positions = <<>>
    /\ lock = [readers |-> {}, writer |-> None]
    /\ task = [t \in Tasks |-> IdleTask]
    /\ lastSuccess = [a \in Addresses |-> None]
    /\ account = None
    /\ reply = None
    /\ subject = None
    /\ quote = None
    /\ chain = None
    /\ receipt = None
    /\ batch = None

LockFree == lock.readers = {} /\ lock.writer = None

\* HashMap::insert and HashMap::remove.
Insert(m, k, v) == [x \in DOMAIN m \cup {k} |-> IF x = k THEN v ELSE m[x]]
Remove(m, k) == [x \in DOMAIN m \ {k} |-> m[x]]

\* ------------------------------------------------------ registry operations
\* LiquidationEngine::add_position: write lock, insert, unlock.
add_position(p) ==
    /\ LockFree
    /\ positions' = Insert(positions, p.address, p)
    /\ UNCHANGED <<variant, now, lock, task, lastSuccess, account, reply, subject, quote, chain, receipt, batch>>

\* LiquidationEngine::remove_position: write lock, remove, unlock.
remove_position(a) ==
    /\ LockFree
    /\ positions' = Remove(positions, a)
    /\ UNCHANGED <<variant, now, lock, task, lastSuccess, account, reply, subject, quote, chain, receipt, batch>>

\* The clock moves on.
AdvanceClock ==
    /\ now < MaxTime
    /\ now' = now + 1
    /\ UNCHANGED <<variant, positions, lock, task, lastSuccess, account, reply, subject, quote, chain, receipt, batch>>

\* ------------------------------------------------------------ check_positions
\* positions.values().cloned().collect(): the values in any iteration order.
Values(m) ==
    { s \in [1 .. Cardinality(DOMAIN m) -> {m[a] : a \in DOMAIN m}] :
        \A i, j \in DOMAIN s : i # j => s[i] # s[j] }

ReleaseRead_Keep(l, t) == l

\* drop(positions): the read guard of task t is released.
ReleaseRead(l, t) == [l EXCEPT !.readers = @ \ {t}]

\* check_positions is entered (a tick of start, or a manual call) and
\* self.positions.read().await returns the read guard.
AcquireRead(t) ==
    /\ task[t].pc = "idle"
    /\ lock.writer = None
    /\ lock' = [lock EXCEPT !.readers = @ \cup {t}]
    /\ task' = [task EXCEPT ![t].pc = "snapshot"]
    /\ UNCHANGED <<variant, now, positions, lastSuccess, account, reply, subject, quote, chain, receipt, batch>>

\* The snapshot is collected and the read guard dropped.
Snapshot(t) ==
    /\ task[t].pc = "snapshot"
    /\ \E s \in Values(positions) :
         task' = [task EXCEPT ![t].pc = "loop", ![t].snapshot = s,
                              ![t].taken = {s[i].address : i \in DOMAIN s}]
    /\ lock' = ReleaseRead(lock, t)
    /\ UNCHANGED <<variant, now, positions, lastSuccess, account, reply, subject, quote, chain, receipt, batch>>

FinishCheck_StopOnError(t) ==
    /\ task[t].pc = "loop"
    /\ task[t].snapshot = <<>>
    /\ \A i \in DOMAIN task[t].results : task[t].results[i].outcome \notin {"error", "failed"}
    /\ task' = [task EXCEPT ![t] = IdleTask]
    /\ UNCHANGED <<variant, now, positions, lock, lastSuccess, account, reply, subject, quote, chain, receipt, batch>>

\* The for loop is over: check_positions returns Ok(()).
FinishCheck(t) ==
    /\ task[t].pc = "loop"
    /\ task[t].snapshot = <<>>
    /\ task' = [task EXCEPT ![t] = IdleTask]
    /\ UNCHANGED <<variant, now, positions, lock, lastSuccess, account, reply, subject, quote, chain, receipt, batch>>

\* ------------------------------------------------------------- check_position
\* The cooldown test at the head of check_position: lib.rs compares
\* now - last_liquidated with liquidation_cooldown_secs in i64, liquidation.rs
\* compares now.saturating_sub(last_liquidated as u64) with
\* min_liquidation_interval_secs.
in_cooldown(v, p, t) ==
    /\ p.last_liquidated # None
    /\ IF v = "lib"
       THEN t - p.last_liquidated[1] < lib_liquidation_cooldown_secs
       ELSE SaturatingSubAsU64(t, p.last_liquidated[1]) < min_liquidation_interval_secs

\* The liquidation test of check_position: is_liquidatable in lib.rs,
\* is_undercollateralized against config.maintenance_margin in liquidation.rs.
should_liquidate(v, p, price) ==
    IF v = "lib" THEN is_liquidatable(p, price)
    ELSE is_undercollateralized(p, price, maintenance_margin_num)

Decide_IgnoreError(v, p, res) ==
    IF should_liquidate(v, p, res.price) THEN "liquidate" ELSE "healthy"

Decide_Always(v, p, res) ==
    IF ~res.ok THEN "error" ELSE "liquidate"

\* What check_position does with the oracle's answer: `?` returns the error,
\* an accepted price is tested and the position liquidated or left alone.
Decide(v, p, res) ==
    IF ~res.ok THEN "error"
    ELSE IF should_liquidate(v, p, res.price) THEN "liquidate"
    ELSE "healthy"

AfterLiquidation_RecordAlways(v, ok) ==
    IF v = "lib" THEN "record_wait" ELSE "loop"

\* Where check_position goes when liquidate_position has returned: lib.rs
\* returns the error or goes on to take the write lock, liquidation.rs
\* returns either way.
AfterLiquidation(v, ok) ==
    IF v = "lib" /\ ok THEN "record_wait" ELSE "loop"

Returned_Abort(tk, a, outcome) ==
    [tk EXCEPT !.pc = "loop", !.cur = None,
               !.results = Append(@, [address |-> a, outcome |-> outcome]),
               !.snapshot = IF outcome \in {"error", "failed"} THEN <<>> ELSE @]

\* check_position has returned for the position at address a: the for loop of
\* check_positions logs an error and goes on, whatever the outcome.
Returned(tk, a, outcome) ==
    [tk EXCEPT !.pc = "loop", !.cur = None,
               !.results = Append(@, [address |-> a, outcome |-> outcome])]

\* check_position is called with the next position of the snapshot.
Called(tk, p) ==
    [tk EXCEPT !.snapshot = Tail(@), !.cur = Some(p), !.oracle = None,
               !.ledger = "none"]

\* Next position of the snapshot, in cooldown: check_position returns Ok(()).
SkipCooldown(t) ==
    /\ task[t].pc = "loop"
    /\ task[t].snapshot # <<>>
    /\ LET p == Head(task[t].snapshot)
       IN  /\ in_cooldown(variant, p, now)
           /\ task' = [task EXCEPT
                 ![t] = Returned(Called(@, p), p.address, "cooldown")]
    /\ UNCHANGED <<variant, now, positions, lock, lastSuccess, account, reply, subject, quote, chain, receipt, batch>>

\* Next position of the snapshot, not in cooldown: oracle.get_price is called.
CallOracle(t) ==
    /\ task[t].pc = "loop"
    /\ task[t].snapshot # <<>>
    /\ LET p == Head(task[t].snapshot)
       IN  /\ ~in_cooldown(variant, p, now)
           /\ task' = [task EXCEPT ![t] = [Called(@, p) EXCEPT !.pc = "oracle"]]
    /\ UNCHANGED <<variant, now, positions, lock, lastSuccess, account, reply, subject, quote, chain, receipt, batch>>

\* get_price returns: error, healthy position, or liquidate_position is called.
OracleReturn(t) ==
    /\ task[t].pc = "oracle"
    /\ \E res \in {get_price(r, now) : r \in Readings} :
        LET p == task[t].cur[1]
            d == Decide(variant, p, res)
            tk == [task[t] EXCEPT !.oracle = Some(res)]
        IN  task' = [task EXCEPT ![t] =
                IF d = "liquidate" THEN [tk EXCEPT !.pc = "liquidating"]
                ELSE Returned(tk, p.address, d)]
    /\ UNCHANGED <<variant, now, positions, lock, lastSuccess, account, reply, subject, quote, chain, receipt, batch>>

\* liquidate_position has returned to check_position.
LiquidationReturned(tk, v, ok) ==
    LET pc2 == AfterLiquidation(v, ok)
        tk2 == [tk EXCEPT !.ledger = IF ok THEN "ok" ELSE "err"]
    IN  IF pc2 = "loop"
        THEN Returned(tk2, tk.cur[1].address, IF ok THEN "liquidated" ELSE "failed")
        ELSE [tk2 EXCEPT !.pc = pc2]

\* liquidate_position returns Ok(()) (both variants end with Ok(())).
LiquidateOk(t) ==
    /\ task[t].pc = "liquidating"
    /\ lastSuccess' = [lastSuccess EXCEPT ![task[t].cur[1].address] = Some(now)]
    /\ task' = [task EXCEPT ![t] = LiquidationReturned(@, variant, TRUE)]
    /\ UNCHANGED <<variant, now, positions, lock, account, reply, subject, quote, chain, receipt, batch>>

\* Fault injection: liquidate_position returns Err (the signature allows it,
\* the stub bodies never do); the caller's error path is what is modelled.
LiquidateErr(t) ==
    /\ task[t].pc = "liquidating"
    /\ task' = [task EXCEPT ![t] = LiquidationReturned(@, variant, FALSE)]
    /\ UNCHANGED <<variant, now, positions, lock, lastSuccess, account, reply, subject, quote, chain, receipt, batch>>

\* lib.rs: self.positions.write().await returns the write guard.
AcquireWrite(t) ==
    /\ task[t].pc = "record_wait"
    /\ LockFree
    /\ lock' = [lock EXCEPT !.writer = Some(t)]
    /\ task' = [task EXCEPT ![t].pc = "record"]
    /\ UNCHANGED <<variant, now, positions, lastSuccess, account, reply, subject, quote, chain, receipt, batch>>

\* RecordCooldown stamping every registered position.
RecordCooldown_All(t) ==
    /\ task[t].pc = "record"
    /\ LET a == task[t].cur[1].address
       IN  /\ positions' = [x \in DOMAIN positions |->
                               [positions[x] EXCEPT !.last_liquidated = Some(now)]]
           /\ task' = [task EXCEPT ![t] = Returned(@, a, "liquidated")]
    /\ lock' = [lock EXCEPT !.writer = None]
    /\ UNCHANGED <<variant, now, lastSuccess, account, reply, subject, quote, chain, receipt, batch>>

\* RecordCooldown writing the entry back whether or not it is still there.
RecordCooldown_Upsert(t) ==
    /\ task[t].pc = "record"
    /\ LET a == task[t].cur[1].address
       IN  /\ positions' = IF a \in DOMAIN positions
                           THEN [positions EXCEPT ![a].last_liquidated = Some(now)]
                           ELSE Insert(positions, a,
                                       [task[t].cur[1] EXCEPT !.last_liquidated = Some(now)])
           /\ task' = [task EXCEPT ![t] = Returned(@, a, "liquidated")]
    /\ lock' = [lock EXCEPT !.writer = None]
    /\ UNCHANGED <<variant, now, lastSuccess, account, reply, subject, quote, chain, receipt, batch>>

\* lib.rs: if the position is still registered its last_liquidated is set to
\* the clock; the write guard is dropped and check_position returns Ok(()).
RecordCooldown(t) ==
    /\ task[t].pc = "record"
    /\ LET a == task[t].cur[1].address
       IN  /\ positions' = IF a \in DOMAIN positions
                           THEN [positions EXCEPT ![a].last_liquidated = Some(now)]
                           ELSE positions
           /\ task' = [task EXCEPT ![t] = Returned(@, a, "liquidated")]
    /\ lock' = [lock EXCEPT !.writer = None]
    /\ UNCHANGED <<variant, now, lastSuccess, account, reply, subject, quote, chain, receipt, batch>>

\* ------------------------------------------------------------- specification
\* The steps of the engine with the tasks TS running check_positions and
\* add_position / remove_position called for the addresses AS, with the
\* economics ES and the last_liquidated values LS.
Engine(TS, AS, ES, LS) ==
    \/ \E a \in AS, s \in Symbols, e \in ES, l \in LS :
         add_position(Position(a, s, e, l))
    \/ \E a \in AS : remove_position(a)
    \/ AdvanceClock
    \/ \E t \in TS : AcquireRead(t)
    \/ \E t \in TS : Snapshot(t)
    \/ \E t \in TS : FinishCheck(t)
    \/ \E t \in TS : SkipCooldown(t)
    \/ \E t \in TS : CallOracle(t)
    \/ \E t \in TS : OracleReturn(t)
    \/ \E t \in TS : LiquidateOk(t)
    \/ \E t \in TS : AcquireWrite(t)
    \/ \E t \in TS : RecordCooldown(t)

\* The driver and a manual check_positions caller over one monitored address.
Next == Engine(Tasks, {"a1"}, Economics, GivenLastLiquidated)

Spec == Init /\ [][Next]_vars

\* The driver alone over two addresses, with a ledger stub that can fail.
NextFault ==
    \/ Engine({"driver"}, Addresses, OpenEconomics, {None})
    \/ LiquidateErr("driver")

SpecFault == Init /\ [][NextFault]_vars

\* The steps of the task spawned for start: interval.tick() fires, every
\* await of check_positions (lock, oracle, liquidate_position) returns.
DriverStep ==
    \/ AcquireRead("driver")
    \/ Snapshot("driver")
    \/ FinishCheck("driver")
    \/ SkipCooldown("driver")
    \/ CallOracle("driver")
    \/ OracleReturn("driver")
    \/ LiquidateOk("driver")
    \/ LiquidateErr("driver")
    \/ AcquireWrite("driver")
    \/ RecordCooldown("driver")

\* The driver under a fair scheduler, with every call returning.
SpecLive == Init /\ [][NextFault]_vars /\ WF_vars(DriverStep)

\* Position::new and add_position take size and margin as f64 and test
\* neither: the economics a caller can register, negative ones included.
SignedEconomics ==
    OpenEconomics \cup
    { [size |-> -1, is_long |-> TRUE, entry_price |-> 1000, margin |-> 100],
      [size |-> 1, is_long |-> TRUE, entry_price |-> 1000, margin |-> -100] }

\* The driver over one address, with add_position called on any economics.
NextSigned == Engine({"driver"}, {"a1"}, SignedEconomics, {None})

SpecSigned == Init /\ [][NextSigned]_vars

\* ----------------------------------------------------- the price gate alone
\* PythOracle::get_price queried on any price account at any clock value.
InitOracle ==
    /\ variant = "bin"
    /\ now = 0
    /\ positions = <<>>
    /\ lock = [readers |-> {}, writer |-> None]
    /\ task = [t \in Tasks |-> IdleTask]
    /\ lastSuccess = [a \in Addresses |-> None]
    /\ account \in {Some(r) : r \in Readings}
    /\ reply = None
    /\ subject = None
    /\ quote = None
    /\ chain = None
    /\ receipt = None
    /\ batch = None

\* One call of get_price: the reply with the clock it was computed at.
Query ==
    /\ account # None
    /\ reply' = Some([res |-> get_price(account[1], now), at |-> now])
    /\ UNCHANGED <<variant, now, positions, lock, task, lastSuccess, account, subject, quote, chain, receipt, batch>>

NextOracle == Query \/ AdvanceClock

SpecOracle == InitOracle /\ [][NextOracle]_vars

\* --------------------------------------------------- the position math alone
\* The positions the methods of Position are called on: closed, small and
\* above the size cap, long and short, from no margin to over-collateralized.
MathSizes == {0, 1, 5}
MathEntryPrices == {100, 200}
MathMargins == {0, 1, 10, 150, 300}
MathEconomics ==
    [size : MathSizes, is_long : BOOLEAN, entry_price : MathEntryPrices,
     margin : MathMargins]

\* The prices the methods are called with, as fractions.
MathPrices == {<<n, 1>> : n \in {0, 50, 90, 100, 110, 200, 300}}

InitMath ==
    /\ variant = "lib"
    /\ now = 0
    /\ positions = <<>>
    /\ lock = [readers |-> {}, writer |-> None]
    /\ task = [t \in Tasks |-> IdleTask]
    /\ lastSuccess = [a \in Addresses |-> None]
    /\ account = None
    /\ reply = None
    /\ subject \in {Some(Position("a1", "BTC/USD", e, None)) : e \in MathEconomics}
    /\ quote = None
    /\ chain = None
    /\ receipt = None
    /\ batch = None

\* What the methods of the subject return at the price f.
Quoted(f) ==
    LET p == Rescaled(subject[1], f[2])
    IN  [q_price |-> f,
         q_liquidation_price |-> liquidation_price(subject[1]),
         q_ratio |-> margin_ratio(p, f[1]),
         q_leverage |-> leverage(p, f[1]),
         q_liquidatable |-> is_liquidatable(p, f[1]),
         q_under |-> is_undercollateralized(p, f[1], maintenance_margin_num)]

\* margin_ratio, leverage, is_liquidatable and is_undercollateralized are
\* called at a given price.
QuoteAt ==
    /\ subject # None
    /\ \E f \in MathPrices : quote' = Some(Quoted(f))
    /\ UNCHANGED <<variant, now, positions, lock, task, lastSuccess, account, reply, subject, chain, receipt, batch>>

\* liquidation_price is called and the other methods at the price it returns.
QuoteAtLiquidationPrice ==
    /\ subject # None
    /\ quote' = Some(Quoted(liquidation_price(subject[1])))
    /\ UNCHANGED <<variant, now, positions, lock, task, lastSuccess, account, reply, subject, chain, receipt, batch>>

NextMath == QuoteAt \/ QuoteAtLiquidationPrice

SpecMath == InitMath /\ [][NextMath]_vars

\* ========================================================== on-ledger program
\* programs/liquidation-program: one position account (collateral and debt,
\* both u64) and the three token accounts its instructions move tokens between.
\* An instruction that returns Err is rolled back whole by the runtime, so a
\* failed instruction leaves every account as it found it.

\* Token balances the accounts start with and the amounts instructions are
\* called with; all far below 2^64, so no u64 sum in this range wraps.
UserTokens == {0, 20, 40}

VaultTokens == {0, 5}

LiquidatorTokens == {0, 20}

LedgerAmounts == {0, 5, 10, 20}

\* The accounts before initialize_position: the position account is not
\* created yet, the token accounts hold what their owners brought.
InitLedger ==
    /\ variant = "bin"
    /\ now = 0
    /\ positions = <<>>
    /\ lock = [readers |-> {}, writer |-> None]
    /\ task = [t \in Tasks |-> IdleTask]
    /\ lastSuccess = [a \in Addresses |-> None]
    /\ account = None
    /\ reply = None
    /\ subject = None
    /\ quote = None
    /\ chain \in {Some([opened |-> FALSE, collateral |-> 0, debt |-> 0,
                        user_token_account |-> u, vault |-> v,
                        liquidator_token_account |-> l]) :
                    u \in UserTokens, v \in VaultTokens, l \in LiquidatorTokens}
    /\ receipt = None
    /\ batch = None

\* What an instruction leaves behind: its name, its argument and its result.
Receipt(name, amount, outcome) ==
    Some([instruction |-> name, argument |-> amount, result |-> outcome])

\* transfer_tokens: the token program's transfer, which fails when the source
\* holds less than the amount; None stands for the Err it then returns.
transfer_tokens(c, from, to, amount) ==
    IF c[from] < amount
    THEN None
    ELSE Some([[c EXCEPT ![from] = @ - amount] EXCEPT ![to] = @ + amount])

\* u64::saturating_sub
saturating_sub(a, b) == IF a < b THEN 0 ELSE a - b

\* initialize_position: `init` creates the account, so it fails on an account
\* that exists; the new position has no collateral and no debt.
initialize_position ==
    /\ chain # None
    /\ IF chain[1].opened
       THEN /\ receipt' = Receipt("initialize_position", 0, "AccountInUse")
            /\ UNCHANGED chain
       ELSE /\ chain' = Some([chain[1] EXCEPT !.opened = TRUE,
                                              !.collateral = 0,
                                              !.debt = 0])
            /\ receipt' = Receipt("initialize_position", 0, "Ok")
    /\ UNCHANGED <<variant, now, positions, lock, task, lastSuccess, account, reply, subject, quote, batch>>

\* deposit_collateral: tokens go from the user to the vault, then the
\* position's collateral grows by the amount.
deposit_collateral(amount) ==
    /\ chain # None
    /\ LET c == chain[1]
           moved == transfer_tokens(c, "user_token_account", "vault", amount)
       IN  IF ~c.opened
           THEN /\ receipt' = Receipt("deposit_collateral", amount, "AccountNotInitialized")
                /\ UNCHANGED chain
           ELSE IF moved = None
           THEN /\ receipt' = Receipt("deposit_collateral", amount, "InsufficientFunds")
                /\ UNCHANGED chain
           ELSE /\ chain' = Some([moved[1] EXCEPT !.collateral = @ + amount])
                /\ receipt' = Receipt("deposit_collateral", amount, "Ok")
    /\ UNCHANGED <<variant, now, positions, lock, task, lastSuccess, account, reply, subject, quote, batch>>

\* liquidate with the health check taken out.
liquidate_Unchecked(repay_amount) ==
    /\ chain # None
    /\ LET c == chain[1]
           repaid == transfer_tokens(c, "liquidator_token_account", "vault", repay_amount)
           reward == repay_amount \div 10
           rewarded == IF repaid = None
                       THEN None
                       ELSE transfer_tokens(repaid[1], "vault", "liquidator_token_account", reward)
       IN  IF ~c.opened
           THEN /\ receipt' = Receipt("liquidate", repay_amount, "AccountNotInitialized")
                /\ UNCHANGED chain
           ELSE IF rewarded = None
           THEN /\ receipt' = Receipt("liquidate", repay_amount, "InsufficientFunds")
                /\ UNCHANGED chain
           ELSE /\ chain' = Some([rewarded[1] EXCEPT
                                    !.collateral = saturating_sub(c.collateral, reward),
                                    !.debt = saturating_sub(c.debt, repay_amount)])
                /\ receipt' = Receipt("liquidate", repay_amount, "Ok")
    /\ UNCHANGED <<variant, now, positions, lock, task, lastSuccess, account, reply, subject, quote, batch>>

\* liquidate: the health check first, then the repayment from the liquidator
\* to the vault, the reward (a tenth of the repayment, rounded down) from the
\* vault to the liquidator, and the two saturating subtractions.
liquidate(repay_amount) ==
    /\ chain # None
    /\ LET c == chain[1]
           repaid == transfer_tokens(c, "liquidator_token_account", "vault", repay_amount)
           reward == repay_amount \div 10
           rewarded == IF repaid = None
                       THEN None
                       ELSE transfer_tokens(repaid[1], "vault", "liquidator_token_account", reward)
       IN  IF ~c.opened
           THEN /\ receipt' = Receipt("liquidate", repay_amount, "AccountNotInitialized")
                /\ UNCHANGED chain
           ELSE IF ~(c.collateral < c.debt)
           THEN /\ receipt' = Receipt("liquidate", repay_amount, "PositionHealthy")
                /\ UNCHANGED chain
           ELSE IF rewarded = None
           THEN /\ receipt' = Receipt("liquidate", repay_amount, "InsufficientFunds")
                /\ UNCHANGED chain
           ELSE /\ chain' = Some([rewarded[1] EXCEPT
                                    !.collateral = saturating_sub(c.collateral, reward),
                                    !.debt = saturating_sub(c.debt, repay_amount)])
                /\ receipt' = Receipt("liquidate", repay_amount, "Ok")
    /\ UNCHANGED <<variant, now, positions, lock, task, lastSuccess, account, reply, subject, quote, batch>>

NextLedger ==
    \/ initialize_position
    \/ \E amount \in LedgerAmounts : deposit_collateral(amount)
    \/ \E repay_amount \in LedgerAmounts : liquidate(repay_amount)

SpecLedger == InitLedger /\ [][NextLedger]_vars

\* The position account as liquidate can be handed it: collateral and debt
\* are u64 fields of the account, and liquidate takes both as it finds them.
\* No instruction of this program raises debt, so an account with debt > 0
\* is drawn here, not reached from initialize_position.
LedgerCollaterals == {0, 1, 5}

LedgerDebts == {0, 5, 30}

InitLedgerOpen ==
    /\ variant = "bin"
    /\ now = 0
    /\ positions = <<>>
    /\ lock = [readers |-> {}, writer |-> None]
    /\ task = [t \in Tasks |-> IdleTask]
    /\ lastSuccess = [a \in Addresses |-> None]
    /\ account = None
    /\ reply = None
    /\ subject = None
    /\ quote = None
    /\ chain \in {Some([opened |-> TRUE, collateral |-> k, debt |-> d,
                        user_token_account |-> u, vault |-> v,
                        liquidator_token_account |-> l]) :
                    k \in LedgerCollaterals, d \in LedgerDebts,
                    u \in UserTokens, v \in VaultTokens, l \in LiquidatorTokens}
    /\ receipt = None
    /\ batch = None

\* The instructions of the program on a position account with a debt.
SpecLedgerOpen == InitLedgerOpen /\ [][NextLedger]_vars

\* ============================================================ batch prices
\* OracleProvider::get_prices, the provided method of the trait: one
\* get_price per requested symbol, in order, each awaited before the next; the
\* first Err returns from the call (the ? operator) and drops the map built
\* so far.

\* The longest request.
MaxBatch == 3

BatchSymbols == {"BTC/USD", "ETH/USD"}

\* The requests: every slice of at most MaxBatch symbols, repeats included.
BatchRequests ==
    UNION {[1..n -> BatchSymbols] : n \in 0..MaxBatch}

\* What one get_price call of the batch can return.
BatchAnswers == {get_price(r, 0) : r \in Readings}

\* What get_prices returns: Ok(map) or the Err of a get_price.
PricesOk(m) == Some([fetched |-> TRUE, map |-> m, error |-> "none"])

PricesErr(e) == Some([fetched |-> FALSE, map |-> <<>>, error |-> e])

\* get_prices has been called with a request and has an empty map.
InitBatch ==
    /\ variant = "bin"
    /\ now = 0
    /\ positions = <<>>
    /\ lock = [readers |-> {}, writer |-> None]
    /\ task = [t \in Tasks |-> IdleTask]
    /\ lastSuccess = [a \in Addresses |-> None]
    /\ account = None
    /\ reply = None
    /\ subject = None
    /\ quote = None
    /\ chain = None
    /\ receipt = None
    /\ batch \in {Some([requested |-> q, rest |-> q, prices |-> <<>>,
                        queried |-> <<>>, answers |-> <<>>, returned |-> None]) :
                    q \in BatchRequests}

\* The loop body with an Err that is skipped instead of returned.
FetchNext_SkipError ==
    /\ batch # None
    /\ batch[1].returned = None
    /\ batch[1].rest # <<>>
    /\ \E res \in BatchAnswers :
        LET b == batch[1]
            symbol == Head(b.rest)
            asked == [b EXCEPT !.rest = Tail(@),
                               !.queried = Append(@, symbol),
                               !.answers = Append(@, res)]
        IN  batch' = Some(IF res.ok
                          THEN [asked EXCEPT !.prices = Insert(@, symbol, res.price)]
                          ELSE asked)
    /\ UNCHANGED <<variant, now, positions, lock, task, lastSuccess, account, reply, subject, quote, chain, receipt>>

\* One turn of the loop: get_price for the next symbol returns; an Ok price
\* is inserted under the symbol, an Err ends the call with that error.
FetchNext ==
    /\ batch # None
    /\ batch[1].returned = None
    /\ batch[1].rest # <<>>
    /\ \E res \in BatchAnswers :
        LET b == batch[1]
            symbol == Head(b.rest)
            asked == [b EXCEPT !.rest = Tail(@),
                               !.queried = Append(@, symbol),
                               !.answers = Append(@, res)]
        IN  batch' = Some(IF res.ok
                          THEN [asked EXCEPT !.prices = Insert(@, symbol, res.price)]
                          ELSE [asked EXCEPT !.returned = PricesErr(res.err)])
    /\ UNCHANGED <<variant, now, positions, lock, task, lastSuccess, account, reply, subject, quote, chain, receipt>>

\* The loop is over: Ok(prices).
ReturnPrices ==
    /\ batch # None
    /\ batch[1].returned = None
    /\ batch[1].rest = <<>>
    /\ batch' = Some([batch[1] EXCEPT !.returned = PricesOk(batch[1].prices)])
    /\ UNCHANGED <<variant, now, positions, lock, task, lastSuccess, account, reply, subject, quote, chain, receipt>>

NextBatch == FetchNext \/ ReturnPrices

SpecBatch == InitBatch /\ [][NextBatch]_vars

\* ===================================================================== claims
\* The tasks inside liquidate_position for address a.
InFlight(a) ==
    {t \in Tasks : task[t].pc = "liquidating" /\ task[t].cur[1].address = a}

\* The task t starts liquidate_position in this step.
StartsLiquidation(t) == task[t].pc # "liquidating" /\ task'[t].pc = "liquidating"

\* C1: at-most-one in flight.  In every reachable state, for every position
\* address, at most one liquidate_position execution for that address is in
\* progress, also when check_positions runs concurrently with itself.
C1_AtMostOneInFlight == \A a \in Addresses : Cardinality(InFlight(a)) <= 1

\* The configured liquidation cooldown of the running engine.
ConfiguredCooldown ==
    IF variant = "lib" THEN lib_liquidation_cooldown_secs ELSE liquidation_cooldown_secs

\* C2: cooldown.  After a liquidation of address a has succeeded at time T, no
\* liquidation of a is started at a time t < T + liquidation_cooldown.
C2_Cooldown ==
    [][\A t \in Tasks :
         StartsLiquidation(t) =>
           LET a == task'[t].cur[1].address
           IN  lastSuccess[a] = None \/ now >= lastSuccess[a][1] + ConfiguredCooldown]_vars

\* The maintenance margin (over MM_DEN) the running engine holds p against.
MaintenanceMargin(p) ==
    IF variant = "lib" THEN calculate_maintenance_margin(p) ELSE maintenance_margin_num

\* C3: the executor is never invoked without an accepted price and a confirmed
\* shortfall.  Whenever liquidate_position is running for a position, get_price
\* returned Ok(price) in the same evaluation and the position's
\* margin_ratio(price) is strictly below the maintenance margin.
C3_ExecutorNeedsPriceAndShortfall ==
    \A t \in Tasks :
      task[t].pc = "liquidating" =>
        /\ task[t].oracle # None
        /\ task[t].oracle[1].ok
        /\ LET r == margin_ratio(task[t].cur[1], task[t].oracle[1].price)
           IN  FracLess(r[1], r[2], MaintenanceMargin(task[t].cur[1]), MM_DEN)

\* C3 witness: liquidate_position runs for an open position at an accepted
\* price below its entry price.
C3_Witness ==
    \E t \in Tasks :
      /\ task[t].pc = "liquidating"
      /\ task[t].cur[1].size > 0
      /\ task[t].oracle[1].ok
      /\ task[t].oracle[1].price = 100

\* C4: a failed liquidation records no cooldown and does not unregister the
\* position.  The step in which liquidate_position returns an error leaves the
\* registry as it is and returns from check_position without the cooldown
\* update; the entry, if registered, is not in cooldown, so the next tick
\* evaluates it again.  The cooldown update is only ever reached after Ok.
C4_FailureRecordsNothing ==
    [][\A t \in Tasks :
         /\ (task[t].pc = "liquidating" /\ task'[t].ledger = "err") =>
              LET a == task[t].cur[1].address
              IN  /\ task'[t].pc = "loop"
                  /\ positions' = positions
                  /\ a \in DOMAIN positions' => ~in_cooldown(variant, positions'[a], now')
         /\ task'[t].pc \in {"record_wait", "record"} => task'[t].ledger = "ok"]_vars

\* C4 witness: a liquidation has failed and its position is still registered
\* with no last_liquidated.
C4_Witness ==
    \E t \in Tasks :
      /\ task[t].pc = "loop"
      /\ task[t].ledger = "err"
      /\ LET a == task[t].results[Len(task[t].results)].address
         IN  a \in DOMAIN positions /\ positions[a].last_liquidated = None

\* The addresses check_position has returned for in the pass of task t.
Evaluated(t) == {task[t].results[i].address : i \in DOMAIN task[t].results}

\* The addresses of the snapshot the pass of task t has still to visit.
Remaining(t) == {task[t].snapshot[i].address : i \in DOMAIN task[t].snapshot}

\* The address check_position is running for in task t.
Current(t) == {task[t].cur[i].address : i \in DOMAIN task[t].cur}

\* C5: failure isolation within a tick.  Whatever the outcomes so far (oracle
\* error, liquidation error), every position of the snapshot has been
\* evaluated once, is being evaluated or is still to be visited; the pass ends
\* only by returning Ok with every position of the snapshot evaluated.
C5_FailureIsolation ==
    \A t \in Tasks :
      task[t].pc \notin {"idle", "snapshot"} =>
        /\ Evaluated(t) \cup Current(t) \cup Remaining(t) = task[t].taken
        /\ Cardinality(Evaluated(t)) = Len(task[t].results)
        /\ Evaluated(t) \cap Remaining(t) = {}
        /\ task[t].pc = "loop" => task[t].cur = None

\* C5 witness: in one pass over two positions the first evaluation failed
\* and the second position was evaluated after it, to a liquidation.
C5_Witness ==
    \E t \in Tasks :
      /\ Len(task[t].results) = 2
      /\ task[t].results[1].outcome \in {"error", "failed"}
      /\ task[t].results[2].outcome = "liquidated"
      /\ task[t].snapshot = <<>>

OracleRejections ==
    {"StalePrice", "LowConfidencePrice", "HighConfidenceInterval", "OracleError", "RpcError"}

\* C6: oracle rejection means skip, nothing else.  The step in which get_price
\* returns an error ends the evaluation of that position: liquidate_position
\* is not called, the outcome logged is the error and the registry is unchanged.
C6_RejectionSkips ==
    [][\A t \in Tasks :
         (task[t].pc = "oracle" /\ task'[t].pc # "oracle" /\ ~task'[t].oracle[1].ok) =>
           /\ task'[t].oracle[1].err \in OracleRejections
           /\ task'[t].pc = "loop"
           /\ task'[t].results =
                Append(task[t].results,
                       [address |-> task[t].cur[1].address, outcome |-> "error"])
           /\ positions' = positions
           /\ lastSuccess' = lastSuccess]_vars

\* C6 witness: a stale price has been rejected for a registered position and
\* the evaluation was skipped.
C6_Witness ==
    \E t \in Tasks :
      /\ task[t].pc = "loop"
      /\ task[t].oracle # None
      /\ task[t].oracle[1].err = "StalePrice"
      /\ task[t].results # <<>>
      /\ task[t].results[Len(task[t].results)].address \in DOMAIN positions

\* C7: staleness gate.  get_price on a price account returns StalePrice
\* exactly when now - timestamp > max_price_age_secs, whatever the price and
\* the confidence are.
C7_StalenessGate ==
    (reply # None /\ account[1].fetch = "ok") =>
      ((reply[1].res.err = "StalePrice")
         <=> (reply[1].at - account[1].timestamp > max_price_age_secs))

\* confidence / price < num / CONF_DEN and > num / CONF_DEN over the reals,
\* for price # 0.
RealBelow(confidence, price, num) ==
    IF price > 0 THEN confidence * CONF_DEN < num * price
    ELSE confidence * CONF_DEN > num * price
RealAbove(confidence, price, num) ==
    IF price > 0 THEN confidence * CONF_DEN > num * price
    ELSE confidence * CONF_DEN < num * price

\* min <= confidence / price <= max: the ratio exists and lies in the band.
RatioInRange(confidence, price) ==
    /\ price # 0
    /\ ~RealBelow(confidence, price, min_confidence_interval_num)
    /\ ~RealAbove(confidence, price, max_confidence_interval_num)

\* The price account was written at most max_price_age_secs before the query.
FreshAccount ==
    /\ account[1].timestamp >= 0
    /\ account[1].timestamp <= reply[1].at
    /\ reply[1].at - account[1].timestamp <= max_price_age_secs

\* C8: confidence gate.  For a fresh price, get_price returns
\* LowConfidencePrice when confidence / price < min, HighConfidenceInterval
\* when it is > max, and Ok(price) exactly when min <= confidence / price <= max.
C8_ConfidenceGate ==
    (reply # None /\ account[1].fetch = "ok" /\ FreshAccount) =>
      LET price == account[1].price * Pow10(account[1].expo)
          confidence == account[1].conf * Pow10(account[1].expo)
          res == reply[1].res
      IN  /\ res.ok <=> RatioInRange(confidence, price)
          /\ res.ok => res.price = price
          /\ (price # 0 /\ RealBelow(confidence, price, min_confidence_interval_num))
               => res.err = "LowConfidencePrice"
          /\ (price # 0 /\ RealAbove(confidence, price, max_confidence_interval_num))
               => res.err = "HighConfidenceInterval"

\* C9: the registry lock is never held across an external call.  A read guard
\* is held only while the snapshot is collected and the write guard only
\* while the cooldown is recorded: no task inside get_price or
\* liquidate_position holds either, and when every task is idle, between
\* evaluations or inside an external call, the lock is free, which is all
\* add_position and remove_position wait for.
C9_NoLockAcrossCalls ==
    /\ \A t \in Tasks :
         task[t].pc \in {"oracle", "liquidating"} =>
           t \notin lock.readers /\ lock.writer # Some(t)
    /\ (\A t \in Tasks : task[t].pc \notin {"snapshot", "record"}) => LockFree

\* C9 witness: one task waits on the oracle, the other on the ledger, and the
\* lock is free.
C9_Witness ==
    /\ task["driver"].pc = "oracle"
    /\ task["manual"].pc = "liquidating"
    /\ LockFree

\* C10: no tick overlap.  At any time at most one check_positions pass is
\* running against the registry.
C10_NoTickOverlap == Cardinality({t \in Tasks : task[t].pc # "idle"}) <= 1

EvaluationsInFlight ==
    {t \in Tasks : task[t].pc \in {"oracle", "liquidating", "record_wait", "record"}}

\* C12: bounded concurrency.  In every reachable state the number of position
\* evaluations in flight is at most max_concurrent_liquidations.
C12_BoundedConcurrency == Cardinality(EvaluationsInFlight) <= max_concurrent_liquidations

\* C13: a zero-value position is never liquidatable.  For every position and
\* price with size * price = 0, margin_ratio returns 0 and neither
\* is_liquidatable nor is_undercollateralized (against a positive maintenance
\* margin) is true.
C13_ZeroValueNeverLiquidatable ==
    (quote # None /\ subject[1].size * quote[1].q_price[1] = 0) =>
      /\ quote[1].q_ratio = <<0, 1>>
      /\ ~quote[1].q_liquidatable
      /\ ~quote[1].q_under

\* f < g for fractions with positive denominators.
Below(f, g) == f[1] * g[2] < g[1] * f[2]

\* The subject is a long position with size > 0 and a leverage above 1 at its
\* entry price (0 < margin < size * entry_price).
LeveragedLong ==
    /\ subject[1].is_long
    /\ subject[1].size > 0
    /\ subject[1].margin > 0
    /\ subject[1].margin < subject[1].size * subject[1].entry_price

\* C14: the liquidation price is where the position becomes liquidatable.
\* For a long position with size > 0 and leverage > 1, is_liquidatable is
\* false at the entry price, true at liquidation_price() and true at every
\* price below liquidation_price().
C14_LiquidatableAtLiquidationPrice ==
    (quote # None /\ LeveragedLong) =>
      /\ quote[1].q_price = <<subject[1].entry_price, 1>> => ~quote[1].q_liquidatable
      /\ quote[1].q_price = quote[1].q_liquidation_price => quote[1].q_liquidatable
      /\ Below(quote[1].q_price, quote[1].q_liquidation_price) => quote[1].q_liquidatable

\* The subject has size > 0, entry_price > 0 and margin > 0 (positive leverage).
PositiveLeverage ==
    /\ subject[1].size > 0
    /\ subject[1].entry_price > 0
    /\ subject[1].margin > 0

\* liquidation_price() lies on the losing side of the entry price: strictly
\* below it for a long position, strictly above it for a short one.
OnLosingSide ==
    IF subject[1].is_long
    THEN Below(quote[1].q_liquidation_price, <<subject[1].entry_price, 1>>)
    ELSE Below(<<subject[1].entry_price, 1>>, quote[1].q_liquidation_price)

\* The margin ratio of the subject at its entry price is above its
\* maintenance margin: margin / (size * entry_price) > mm.
AboveMaintenanceAtEntry ==
    subject[1].margin * MM_DEN >
      calculate_maintenance_margin(subject[1]) * subject[1].size * subject[1].entry_price

\* C15 as stated: direction of the liquidation price.  For every position
\* with size > 0, entry_price > 0 and margin > 0, liquidation_price() is
\* strictly less than entry_price when long, strictly greater when short.
C15_DirectionAsStated == (quote # None /\ PositiveLeverage) => OnLosingSide

\* C15 amended: the same, for the positions whose margin ratio at the entry
\* price is above the maintenance margin (1 / leverage > maintenance margin).
C15_Direction ==
    (quote # None /\ PositiveLeverage /\ AboveMaintenanceAtEntry) => OnLosingSide

\* C15 witness: liquidation_price has been computed for a short position
\* above the size cap, opened above its maintenance margin, and lies above
\* the entry price.
C15_Witness ==
    /\ quote # None
    /\ PositiveLeverage
    /\ AboveMaintenanceAtEntry
    /\ ~subject[1].is_long
    /\ subject[1].size = 5
    /\ Below(<<subject[1].entry_price, 1>>, quote[1].q_liquidation_price)

\* C16: leverage moves against PnL.  For a long position with size > 0 and
\* margin > 0, leverage(entry_price) = size * entry_price / margin,
\* leverage(p) is below that for every p > entry_price and above it for
\* every p < entry_price.
C16_LeverageAgainstPnl ==
    (quote # None /\ subject[1].is_long /\ subject[1].size > 0 /\ subject[1].margin > 0) =>
      LET entry == <<subject[1].entry_price, 1>>
          at_entry == leverage(subject[1], subject[1].entry_price)
      IN  /\ at_entry[1] * subject[1].margin
                = subject[1].size * subject[1].entry_price * at_entry[2]
          /\ Below(entry, quote[1].q_price) => Below(quote[1].q_leverage, at_entry)
          /\ Below(quote[1].q_price, entry) => Below(at_entry, quote[1].q_leverage)

\* C17: margin ratio follows the price.  For a position with size > 0 and
\* 0 < margin < size * entry_price, margin_ratio(entry_price) is
\* margin / (size * entry_price); for a long position margin_ratio(p) is
\* greater than that for every p > entry_price and smaller for every
\* 0 < p < entry_price, for a short position the other way round.
C17_MarginRatioFollowsPrice ==
    (/\ quote # None
     /\ subject[1].size > 0
     /\ subject[1].margin > 0
     /\ subject[1].margin < subject[1].size * subject[1].entry_price) =>
      LET entry == <<subject[1].entry_price, 1>>
          at_entry == margin_ratio(subject[1], subject[1].entry_price)
          price == quote[1].q_price
          ratio == quote[1].q_ratio
      IN  /\ at_entry[1] * subject[1].size * subject[1].entry_price
                = subject[1].margin * at_entry[2]
          /\ Below(entry, price) =>
                IF subject[1].is_long THEN Below(at_entry, ratio) ELSE Below(ratio, at_entry)
          /\ (Below(<<0, 1>>, price) /\ Below(price, entry)) =>
                IF subject[1].is_long THEN Below(ratio, at_entry) ELSE Below(at_entry, ratio)

\* C17 witness: margin_ratio of a short position opened at 10x, at a price
\* below its entry price, is above the ratio at the entry price.
C17_Witness ==
    /\ quote # None
    /\ ~subject[1].is_long
    /\ subject[1].size = 1 /\ subject[1].entry_price = 100 /\ subject[1].margin = 10
    /\ quote[1].q_price = <<90, 1>>
    /\ Below(<<1, 10>>, quote[1].q_ratio)

\* The outcomes logged so far in the pass of task t.
Outcomes(t) == {task[t].results[i].outcome : i \in DOMAIN task[t].results}

\* C18: dry run.  With dry_run = true (the engine of liquidation.rs, whose
\* configuration has the flag) liquidate_position never reports an executed
\* liquidation: what it returns is not Ok for a liquidation carried out, no
\* evaluation ends as liquidated, and no last_liquidated is recorded.
C18_DryRun ==
    (variant = "bin" /\ dry_run) =>
      /\ \A t \in Tasks : task[t].ledger # "ok" /\ "liquidated" \notin Outcomes(t)
      /\ \A a \in Addresses : lastSuccess[a] = None
      /\ \A a \in DOMAIN positions :
           positions[a].last_liquidated \in GivenLastLiquidated

\* C19: retry protocol.  A liquidation whose attempt fails is re-attempted
\* within the same execution while fewer than max_retries attempts have been
\* made: the step in which the first attempt of an evaluation fails (every
\* evaluation enters liquidate_position afresh) leaves the evaluation inside
\* liquidate_position, max_retries being above 1.
C19_RetryProtocol ==
    [][\A t \in Tasks :
         (task[t].pc = "liquidating" /\ task'[t].ledger = "err" /\ 1 < max_retries) =>
           /\ task'[t].pc = "liquidating"
           /\ task'[t].cur = task[t].cur]_vars

\* check_position returns in this step of task t with the given outcome.
ReturnsWith(t, outcome) ==
    /\ Len(task'[t].results) = Len(task[t].results) + 1
    /\ task'[t].results[Len(task'[t].results)].outcome = outcome

\* C20: one oracle query and one liquidation per position per tick.  In a
\* check_positions pass every snapshot position is evaluated once: without a
\* get_price call when it is in cooldown, with one otherwise; a position
\* passed to liquidate_position has its last_liquidated set when the
\* evaluation returns (if it is still registered); the pass ends with every
\* snapshot position evaluated.
C20_OncePerTick ==
    [][\A t \in Tasks :
         /\ ReturnsWith(t, "cooldown") => task'[t].oracle = None
         /\ (\E o \in {"error", "healthy", "liquidated"} : ReturnsWith(t, o)) =>
               task'[t].oracle # None
         /\ ReturnsWith(t, "liquidated") =>
               LET a == task'[t].results[Len(task'[t].results)].address
               IN  /\ task'[t].ledger = "ok"
                   /\ a \in DOMAIN positions' => positions'[a].last_liquidated # None
         /\ (task[t].pc = "loop" /\ task'[t].pc = "idle") =>
               /\ Evaluated(t) = task[t].taken
               /\ Len(task[t].results) = Cardinality(task[t].taken)]_vars

\* C21: liquidate on a position whose collateral is at least its debt fails
\* with PositionHealthy and changes no account (no token moves, collateral and
\* debt stay); a liquidate that returns Ok found collateral < debt.
C21_HealthyRefused ==
    [][(/\ <<chain, receipt, batch>>' # <<chain, receipt, batch>>
        /\ receipt'[1].instruction = "liquidate"
        /\ chain[1].opened)
       => /\ chain[1].collateral >= chain[1].debt
             => /\ receipt'[1].result = "PositionHealthy"
                /\ chain' = chain
          /\ receipt'[1].result = "Ok" => chain[1].collateral < chain[1].debt]_vars

\* A funded position refused although the liquidator held the repayment.
C21_Witness ==
    /\ receipt # None
    /\ receipt[1].instruction = "liquidate"
    /\ receipt[1].result = "PositionHealthy"
    /\ receipt[1].argument > 0
    /\ chain[1].collateral > 0
    /\ chain[1].liquidator_token_account >= receipt[1].argument

\* C22: a removed position is not liquidated.  Every address in a snapshot
\* was registered when the snapshot was taken, so an address that is absent
\* from the registry when liquidate_position starts for it has been removed
\* since and not added again; no liquidate_position call starts for such an
\* address.
C22_RemovedNotLiquidated ==
    [][\A t \in Tasks :
          StartsLiquidation(t) => task'[t].cur[1].address \in DOMAIN positions]_vars

\* C23: a tick never resurrects a removed position.  No step of a task
\* running check_positions changes the set of registered addresses; in
\* particular the cooldown update after a liquidation, when it finds the
\* entry removed, inserts none.
C23_NoResurrection ==
    [][task' # task => DOMAIN positions' = DOMAIN positions]_vars

\* The liquidation of a position returned Ok, the task holds the write guard
\* for the cooldown update, and the entry was removed in the meantime.
C23_Witness ==
    \E t \in Tasks :
        /\ task[t].pc = "record"
        /\ task[t].ledger = "ok"
        /\ lock.writer = Some(t)
        /\ task[t].cur[1].address \notin DOMAIN positions

\* liquidate_position is handed the position and no amount: what it
\* liquidates is the position, and the size it reports is position.size.
LiquidatedAmount(p) == p.size

\* C24: liquidation amount.  For a position of size s inside the executor of
\* the configured engine, the amount liquidated is min(s, s *
\* max_liquidation_percent / 100) when enable_partial_liquidations is true and
\* s otherwise, and it is > 0 and <= s.
C24_LiquidationAmount ==
    variant = "bin" =>
      \A t \in Tasks :
          task[t].pc = "liquidating" =>
            LET s == task[t].cur[1].size
                amount == LiquidatedAmount(task[t].cur[1])
            IN  /\ IF enable_partial_liquidations
                   THEN amount * 100 = Min(s * 100, s * max_liquidation_percent)
                   ELSE amount = s
                /\ amount > 0
                /\ amount <= s

\* C25: non-negative economics.  In every reachable registry state, after
\* any sequence of add_position, remove_position and ticks, every registered
\* position has size >= 0 and margin >= 0.
C25_NonNegativeEconomics ==
    \A a \in DOMAIN positions : positions[a].size >= 0 /\ positions[a].margin >= 0

\* liquidate_position of task t returns Ok(()) in this step.
ExecutorReturnsOk(t) ==
    /\ task[t].pc = "liquidating"
    /\ task'[t].pc # "liquidating"
    /\ lastSuccess'[task[t].cur[1].address] = Some(now)

\* C26: last-line re-check.  The price current when liquidate_position acts
\* is whatever the price gate would answer at that moment, not the price the
\* decision was taken on; liquidate_position completes a liquidation only if
\* the position is under-collateralized at that current price, so it does
\* not return Ok when the gate's answer is a price at which the position is
\* healthy.
C26_RecheckAtExecution ==
    [][\A t \in Tasks :
          ExecutorReturnsOk(t) =>
            \A res \in {get_price(r, now) : r \in Readings} :
                res.ok => should_liquidate(variant, task[t].cur[1], res.price)]_vars

\* C27: position status protocol, on what the engine keeps of a position's
\* history.  A position is Liquidating while a liquidate_position call for it
\* is in flight and Liquidated once such a call returned Ok (the engine
\* liquidates positions whole and records the success in last_liquidated);
\* Liquidating is entered only from AtRisk, so liquidate_position starts
\* neither for a position that is in flight already nor for one whose
\* registry entry says it was liquidated, Liquidated being terminal.
C27_StatusProtocol ==
    [][\A t \in Tasks :
          StartsLiquidation(t) =>
            /\ InFlight(task'[t].cur[1].address) = {}
            /\ task'[t].cur[1].last_liquidated = None]_vars

\* The positions the configured filters exclude: symbol on the deny list,
\* symbol missing from a non-empty allow list, size below min_position_size
\* or above max_position_size.
FilteredOut(p) ==
    \/ p.symbol \in blacklisted_symbols
    \/ whitelisted_symbols # {} /\ p.symbol \notin whitelisted_symbols
    \/ p.size * min_position_size[2] < min_position_size[1]
    \/ p.size * max_position_size[2] > max_position_size[1]

\* C28: scheduler filters.  In the configured engine no position the filters
\* exclude is passed to the price gate or to the executor.
C28_SchedulerFilters ==
    variant = "bin" =>
      \A t \in Tasks :
          task[t].pc \in {"oracle", "liquidating"} => ~FilteredOut(task[t].cur[1])

\* C29: registry frame.  The registry is keyed by address, one entry each.
\* A step of add_position or remove_position (no task moves) either puts
\* one entry, the fresh position it was called with (last_liquidated = None
\* here, whatever the replaced entry had), under that position's address and
\* leaves every other entry alone, or deletes one entry and leaves the others
\* alone, or changes nothing.  A step of a tick keeps the registered
\* addresses and changes no entry, except that the cooldown update of a
\* successful liquidation sets last_liquidated of the liquidated position.
C29_RegistryFrame ==
    [][/\ \A a \in DOMAIN positions' : positions'[a].address = a
       /\ IF task' = task
          THEN \/ positions' = positions
               \/ \E a \in Addresses :
                    /\ DOMAIN positions' = DOMAIN positions \cup {a}
                    /\ positions'[a] \in {Position(a, s, e, None) :
                                            s \in Symbols, e \in OpenEconomics}
                    /\ \A b \in DOMAIN positions \ {a} : positions'[b] = positions[b]
               \/ \E a \in DOMAIN positions :
                    /\ DOMAIN positions' = DOMAIN positions \ {a}
                    /\ \A b \in DOMAIN positions' : positions'[b] = positions[b]
          ELSE /\ DOMAIN positions' = DOMAIN positions
               /\ \A a \in DOMAIN positions :
                    \/ positions'[a] = positions[a]
                    \/ /\ positions'[a] =
                            [positions[a] EXCEPT !.last_liquidated = Some(now)]
                       /\ \E t \in Tasks :
                            /\ task[t].pc = "record"
                            /\ task[t].ledger = "ok"
                            /\ task[t].cur[1].address = a]_vars

\* Two registered positions after a pass in which the liquidation of one
\* succeeded and the liquidation of the other failed: the first carries the
\* last_liquidated the tick wrote, the second is as it was added.
C29_Witness ==
    \E a, b \in DOMAIN positions :
        /\ a # b
        /\ positions[a].last_liquidated # None
        /\ positions[b] \in {Position(b, s, e, None) : s \in Symbols, e \in OpenEconomics}
        /\ [address |-> a, outcome |-> "liquidated"] \in
              {task["driver"].results[i] : i \in DOMAIN task["driver"].results}
        /\ [address |-> b, outcome |-> "failed"] \in
              {task["driver"].results[i] : i \in DOMAIN task["driver"].results}

\* C30: an accepted price is usable.  With 0 < min_confidence_interval <=
\* max_confidence_interval, every price get_price returns as Ok is strictly
\* positive, and an account whose raw price is zero or negative is rejected.
C30_AcceptedPricePositive ==
    (/\ 0 < min_confidence_interval_num
     /\ min_confidence_interval_num <= max_confidence_interval_num
     /\ reply # None) =>
      /\ reply[1].res.ok => reply[1].res.price > 0
      /\ (account[1].fetch = "ok" /\ account[1].price <= 0) => ~reply[1].res.ok

SymbolsOf(q) == {q[i] : i \in DOMAIN q}

\* The calls of get_price made so far whose answer was an Err.
FailedQueries(b) == {i \in DOMAIN b.answers : ~b.answers[i].ok}

\* C32: batch price fetch is all-or-nothing.  get_price is called for the
\* requested symbols in order and never after a failed call.  When
\* get_prices returns Ok, every requested symbol was queried with an Ok
\* answer and the map's keys are exactly the requested symbols, each with a
\* price get_price returned for that symbol (the latest one); when it returns
\* an error, that is the error of the first failed get_price, which is the
\* last call made, and no map comes with it.
C32_AllOrNothing ==
    batch # None =>
      LET b == batch[1]
          n == Len(b.queried)
      IN  /\ n <= Len(b.requested)
          /\ b.queried = SubSeq(b.requested, 1, n)
          /\ Len(b.answers) = n
          /\ \A i \in FailedQueries(b) : i = n
          /\ b.returned # None =>
               IF b.returned[1].fetched
               THEN /\ FailedQueries(b) = {}
                    /\ b.queried = b.requested
                    /\ DOMAIN b.returned[1].map = SymbolsOf(b.requested)
                    /\ \A sym \in SymbolsOf(b.requested) :
                         \E i \in DOMAIN b.queried :
                            /\ b.queried[i] = sym
                            /\ \A j \in DOMAIN b.queried : b.queried[j] = sym => j <= i
                            /\ b.returned[1].map[sym] = b.answers[i].price
               ELSE /\ FailedQueries(b) = {n}
                    /\ b.returned[1].error = b.answers[n].err
                    /\ b.returned[1].map = <<>>

\* A request of three symbols whose second get_price failed after the first
\* had succeeded: the call returned that error, the third was never queried.
C32_Witness ==
    /\ batch # None
    /\ Len(batch[1].requested) = 3
    /\ batch[1].returned # None
    /\ ~batch[1].returned[1].fetched
    /\ Len(batch[1].queried) = 2
    /\ batch[1].answers[1].ok
    /\ batch[1].prices # <<>>
====
